---- MODULE Spec2Model ----
(***************************************************************************)
(* A model of joy.py: the Shape heap (shapes, their attribute dictionaries *)
(* and TransformationList objects are Python objects with identity, so     *)
(* they live in sequences indexed by object number), the process-wide      *)
(* shape_seq generator, the transformation algebra, Repeat and render_tag. *)
(* Texts are sequences of one-character strings.                           *)
(***************************************************************************)
EXTENDS Integers, Sequences, FiniteSets, TLC

VARIABLES shapes, attrmaps, tlists, shape_seq, minted, repeat_children, last, ops,
          rt_tag, rt_close, rt_attrs, rt_out,
          svg_nodes, svg_width, svg_height, svg_out,
          cycle, prim, prim_text

rtvars == <<rt_tag, rt_close, rt_attrs, rt_out>>
\* The SVG object: its nodes, width and height, and the text render returned.
docvars == <<svg_nodes, svg_width, svg_height, svg_out>>
\* The arguments of the Cycle that was applied.
cyclevars == <<cycle>>
\* A primitive transformation and the text as_str returned for it.
textvars == <<prim, prim_text>>
vars == <<shapes, attrmaps, tlists, shape_seq, minted, repeat_children, last, ops,
          rt_tag, rt_close, rt_attrs, rt_out,
          svg_nodes, svg_width, svg_height, svg_out,
          cycle, prim, prim_text>>

(***************************************************************************)
(* Bounds of the model.                                                    *)
(***************************************************************************)
\* Shape objects the heap may hold.
MaxShapes == 9
\* TransformationList objects the heap may hold.
MaxTLists == 3
\* Largest repeat count tried.
MaxN == 3
\* Calls a caller makes in one run.
MaxOps == 4
\* Depth at which the interpreter raises RecursionError.
RecursionLimit == 6

(***************************************************************************)
(* Texts and Python values.                                                *)
(***************************************************************************)
Digit == <<"0", "1", "2", "3", "4", "5", "6", "7", "8", "9">>

RECURSIVE StrNat(_)
\* str(i) of a non-negative int.
StrNat(i) == IF i < 10 THEN <<Digit[i + 1]>>
             ELSE StrNat(i \div 10) \o <<Digit[(i % 10) + 1]>>

\* str(i) of an int.
StrInt(i) == IF i < 0 THEN <<"-">> \o StrNat(-i) ELSE StrNat(i)

PyStr(s) == [kind |-> "str", s |-> s]
PyInt(n) == [kind |-> "int", n |-> n]
PyNone == [kind |-> "None"]

\* str(v) of an attribute value.
Py_str(v) == CASE v.kind = "str" -> v.s
               [] v.kind = "int" -> StrInt(v.n)
               [] OTHER -> <<"N", "o", "n", "e">>

\* A dict is the sequence of its items in insertion order.
HasKey(d, k) == \E i \in 1..Len(d) : d[i].k = k
GetItem(d, k) == d[CHOOSE i \in 1..Len(d) : d[i].k = k].v
SetItem(d, k, v) == IF HasKey(d, k)
                    THEN [i \in 1..Len(d) |-> IF d[i].k = k THEN [k |-> k, v |-> v] ELSE d[i]]
                    ELSE Append(d, [k |-> k, v |-> v])

K_id == <<"i", "d">>
K_href == <<"x", "l", "i", "n", "k", ":", "h", "r", "e", "f">>
K_transform == <<"t", "r", "a", "n", "s", "f", "o", "r", "m">>
K_r == <<"r">>
TagUse == <<"u", "s", "e">>
TagDefs == <<"d", "e", "f", "s">>
TagG == <<"g">>
TagCircle == <<"c", "i", "r", "c", "l", "e">>

(***************************************************************************)
(* Transformations.  Primitive transformations are immutable values; a     *)
(* TransformationList is an object, named by its index in tlists.          *)
(***************************************************************************)
NoTransform == [kind |-> "None"]
Translate(x, y) == [kind |-> "Translate", x |-> x, y |-> y]
Point(x, y) == [x |-> x, y |-> y]
\* Point.__eq__ comparing the x coordinates only.
Point_eq_x_only(self, p) == p.x = self.x

\* Point.__eq__
Point_eq(self, p) == p.x = self.x /\ p.y = self.y
Rotate(angle, anchor) == [kind |-> "Rotate", angle |-> angle, anchor |-> anchor]
\* A Rotate whose angle is a float of integral value, as 360/n is.
RotateFloat(angle, anchor) ==
    [kind |-> "Rotate", angle |-> angle, anchor |-> anchor, float |-> TRUE]
Scale(sx, sy) == [kind |-> "Scale", sx |-> sx, sy |-> sy]
TransformationList(ref) == [kind |-> "TransformationList", ref |-> ref]

IsList(t) == t.kind = "TransformationList"

RECURSIVE str_join(_, _)
\* sep.join(texts)
str_join(sep, texts) ==
    IF texts = <<>> THEN <<>>
    ELSE IF Len(texts) = 1 THEN texts[1]
    ELSE texts[1] \o sep \o str_join(sep, Tail(texts))

\* seq[::-1]
Reversed(seq) == [i \in 1..Len(seq) |-> seq[Len(seq) + 1 - i]]

\* Translate.as_str
Translate_as_str(self) ==
    <<"t", "r", "a", "n", "s", "l", "a", "t", "e", "(">> \o StrInt(self.x)
        \o <<" ">> \o StrInt(self.y) \o <<")">>

\* f"{self.angle}": a float of integral value is written with ".0".
Rotate_angle_str(self) ==
    IF "float" \in DOMAIN self THEN StrInt(self.angle) \o <<".", "0">>
    ELSE StrInt(self.angle)

\* Rotate.as_str
Rotate_as_str(self) ==
    LET origin == Point(0, 0)
    IN IF Point_eq(self.anchor, origin)
       THEN <<"r", "o", "t", "a", "t", "e", "(">> \o Rotate_angle_str(self) \o <<")">>
       ELSE <<"r", "o", "t", "a", "t", "e", "(">> \o Rotate_angle_str(self) \o <<" ">>
                \o StrInt(self.anchor.x) \o <<" ">> \o StrInt(self.anchor.y) \o <<")">>

\* Scale.as_str
Scale_as_str(self) ==
    <<"s", "c", "a", "l", "e", "(">> \o StrInt(self.sx) \o <<" ">> \o StrInt(self.sy)
        \o <<")">>

\* self.transformations visited without the reversal.
TransformationList_order_unreversed(transformations) == transformations

\* The order in which TransformationList.as_str visits self.transformations.
TransformationList_order(transformations) == Reversed(transformations)

RECURSIVE as_str(_, _)
\* t.as_str(), by the class of t; tl is the heap of TransformationList objects.
as_str(tl, t) ==
    CASE t.kind = "Translate" -> Translate_as_str(t)
      [] t.kind = "Rotate" -> Rotate_as_str(t)
      [] t.kind = "Scale" -> Scale_as_str(t)
      [] t.kind = "TransformationList" ->
            LET ts == TransformationList_order(tl[t.ref])
            IN str_join(<<" ">>, [i \in 1..Len(ts) |-> as_str(tl, ts[i])])

\* html.escape(s, quote=False) of one character: quotes are left as they are.
html_escape_char_no_quote(c) ==
    CASE c = "&" -> <<"&", "a", "m", "p", ";">>
      [] c = "<" -> <<"&", "l", "t", ";">>
      [] c = ">" -> <<"&", "g", "t", ";">>
      [] OTHER -> <<c>>

\* html.escape(s), quote=True, of one character and of a text.
html_escape_char(c) ==
    CASE c = "&" -> <<"&", "a", "m", "p", ";">>
      [] c = "<" -> <<"&", "l", "t", ";">>
      [] c = ">" -> <<"&", "g", "t", ";">>
      [] c = "\"" -> <<"&", "q", "u", "o", "t", ";">>
      [] c = "'" -> <<"&", "#", "x", "2", "7", ";">>
      [] OTHER -> <<c>>

RECURSIVE html_escape(_)
html_escape(s) == IF s = <<>> THEN <<>>
                  ELSE html_escape_char(Head(s)) \o html_escape(Tail(s))

\* k.replace("_", "-")
replace_underscore(k) == [i \in 1..Len(k) |-> IF k[i] = "_" THEN "-" ELSE k[i]]

\* The dict entries render_tag keeps: those whose value is not None.
render_tag_items(attrs) ==
    LET NotNone(e) == e.v # PyNone
        kept == SelectSeq(attrs, NotNone)
    IN [i \in 1..Len(kept) |->
          [k |-> replace_underscore(kept[i].k), v |-> html_escape(Py_str(kept[i].v))]]

\* render_tag(tag, close, **attrs)
render_tag(tag, close, attrs) ==
    LET end == IF close THEN <<" ", "/", ">">> ELSE <<">">>
    IN IF attrs # <<>>
       THEN LET items == render_tag_items(attrs)
                attrs_text == str_join(<<" ">>,
                    [i \in 1..Len(items) |->
                        items[i].k \o <<"=", "\"">> \o items[i].v \o <<"\"">>])
            IN <<"<">> \o tag \o <<" ">> \o attrs_text \o end
       ELSE <<"<">> \o tag \o end

\* The heap as one value, threaded through the operators below.
Heap == [shapes |-> shapes, attrmaps |-> attrmaps, tlists |-> tlists,
         shape_seq |-> shape_seq, minted |-> minted]

\* Transformation.join: TransformationList([self, transformation]).
Transformation_join(h, self, transformation) ==
    [h |-> [h EXCEPT !.tlists = Append(@, <<self, transformation>>)],
     ret |-> TransformationList(Len(h.tlists) + 1)]

\* TransformationList.join appending to self.transformations in place and
\* returning self.
TransformationList_join_in_place(h, self, transformation) ==
    [h |-> [h EXCEPT !.tlists[self.ref] = Append(@, transformation)],
     ret |-> self]

\* TransformationList.join: TransformationList(self.transformations + [transformation]).
TransformationList_join(h, self, transformation) ==
    [h |-> [h EXCEPT !.tlists = Append(@, h.tlists[self.ref] \o <<transformation>>)],
     ret |-> TransformationList(Len(h.tlists) + 1)]

\* Method dispatch of a.join(b).
join(h, a, b) == IF IsList(a) THEN TransformationList_join(h, a, b)
                 ELSE Transformation_join(h, a, b)

\* Transformation.__or__ with a Transformation on the right.
Transformation_or(h, self, right) == join(h, self, right)

\* isinstance(x, Transformation), for the values of the model.
isinstance_Transformation(x) ==
    x.kind \in {"Translate", "Rotate", "Scale", "TransformationList"}

\* self | right for a Transformation self: __or__ returns NotImplemented for
\* a right operand that is not a Transformation; a str or an int has no
\* reflected method that takes a Transformation, so the operator raises
\* TypeError.
Transformation_or_operator(h, self, right) ==
    IF ~isinstance_Transformation(right)
    THEN [h |-> h, ret |-> NoTransform, err |-> "TypeError"]
    ELSE LET r == join(h, self, right)
         IN [h |-> r.h, ret |-> r.ret, err |-> ""]

\* shape_sequence: the i-th value of the generator, f"s-{i}".
shape_sequence(i) == <<"s", "-">> \o StrInt(i)

\* next(shape_sequence()): a new generator on every call, which starts over.
next_shape_seq_restarted(h) ==
    [h |-> [h EXCEPT !.minted = Append(@, shape_sequence(0))],
     ret |-> shape_sequence(0)]

\* next(shape_seq): yields the next value of the process-wide generator.
next_shape_seq(h) ==
    [h |-> [h EXCEPT !.shape_seq = @ + 1,
                     !.minted = Append(@, shape_sequence(h.shape_seq))],
     ret |-> shape_sequence(h.shape_seq)]

(***************************************************************************)
(* Shapes.                                                                 *)
(***************************************************************************)
\* Shape.__init__: the keyword arguments become a new dict.
Shape_init(h, tag, attrs) ==
    [h |-> [h EXCEPT !.attrmaps = Append(@, attrs),
                     !.shapes = Append(@, [tag |-> tag,
                                           attrs |-> Len(h.attrmaps) + 1,
                                           transform |-> NoTransform,
                                           children |-> <<>>])],
     ret |-> Len(h.shapes) + 1]

\* Group.__init__: a "g" shape whose children is the given list.
Group_init(h, children) ==
    LET s == Shape_init(h, TagG, <<>>)
    IN [h |-> [s.h EXCEPT !.shapes[s.ret].children = children], ret |-> s.ret]

\* Shape.__add__.
Shape_add(h, self, shape) == Group_init(h, <<self, shape>>)

\* Shape.get_reference without the test for an existing id.
get_reference_always_mints(h, self) ==
    LET a == h.shapes[self].attrs
        nx == next_shape_seq(h)
        m == [nx.h EXCEPT !.attrmaps[a] = SetItem(@, K_id, PyStr(nx.ret))]
        attrs == <<[k |-> K_href,
                    v |-> PyStr(<<"#">> \o Py_str(GetItem(m.attrmaps[a], K_id)))]>>
    IN Shape_init(m, TagUse, attrs)

\* Shape.get_reference: the id, minted when absent, is stored in the shape's
\* own attrs dict; the result is a new "use" shape.
get_reference(h, self) ==
    LET a == h.shapes[self].attrs
        m == IF ~HasKey(h.attrmaps[a], K_id)
             THEN LET nx == next_shape_seq(h)
                  IN [nx.h EXCEPT !.attrmaps[a] = SetItem(@, K_id, PyStr(nx.ret))]
             ELSE h
        attrs == <<[k |-> K_href,
                    v |-> PyStr(<<"#">> \o Py_str(GetItem(m.attrmaps[a], K_id)))]>>
    IN Shape_init(m, TagUse, attrs)

\* Shape.clone: a new object whose __dict__ has the same entries.
clone(h, self) ==
    [h |-> [h EXCEPT !.shapes = Append(@, h.shapes[self])],
     ret |-> Len(h.shapes) + 1]

\* Shape.apply_transform.
apply_transform(h, self, transform) ==
    LET j == IF h.shapes[self].transform # NoTransform
             THEN Transformation_or(h, h.shapes[self].transform, transform)
             ELSE [h |-> h, ret |-> transform]
        c == clone(j.h, self)
    IN [h |-> [c.h EXCEPT !.shapes[c.ret].transform = j.ret], ret |-> c.ret]

\* Shape.get_attrs: a copy of the attrs dict, with the transform's text when
\* a transformation is attached.
get_attrs(h, self) ==
    LET attrs == h.attrmaps[h.shapes[self].attrs]
    IN IF h.shapes[self].transform # NoTransform
       THEN SetItem(attrs, K_transform,
                    PyStr(as_str(h.tlists, h.shapes[self].transform)))
       ELSE attrs

RECURSIVE Shape__svg(_, _, _)
\* Shape._svg(indent)
Shape__svg(h, self, indent) ==
    LET attrs == get_attrs(h, self)
        children == h.shapes[self].children
    IN IF children # <<>>
       THEN indent \o render_tag(h.shapes[self].tag, FALSE, attrs) \o <<"\n">>
              \o str_join(<<>>, [i \in 1..Len(children) |->
                                   Shape__svg(h, children[i], indent \o <<" ", " ">>)])
              \o indent \o <<"<", "/">> \o h.shapes[self].tag \o <<">", "\n">>
       ELSE indent \o render_tag(h.shapes[self].tag, TRUE, attrs) \o <<"\n">>

\* The attrs dict of the root element SVG.render writes.
SVG_attrs(width, height) ==
    <<[k |-> <<"w", "i", "d", "t", "h">>, v |-> PyInt(width)],
      [k |-> <<"h", "e", "i", "g", "h", "t">>, v |-> PyInt(height)],
      [k |-> <<"v", "i", "e", "w", "B", "o", "x">>,
       v |-> PyStr(<<"-">> \o StrInt(width \div 2) \o <<" ", "-">> \o StrInt(height \div 2)
                      \o <<" ">> \o StrInt(width) \o <<" ">> \o StrInt(height))],
      [k |-> <<"f", "i", "l", "l">>, v |-> PyStr(<<"n", "o", "n", "e">>)],
      [k |-> <<"s", "t", "r", "o", "k", "e">>, v |-> PyStr(<<"b", "l", "a", "c", "k">>)],
      [k |-> <<"x", "m", "l", "n", "s">>,
       v |-> PyStr(<<"h", "t", "t", "p", ":", "/", "/", "w", "w", "w", ".", "w", "3", ".", "o", "r", "g", "/", "2", "0", "0", "0", "/", "s", "v", "g">>)],
      [k |-> <<"x", "m", "l", "n", "s", ":", "x", "l", "i", "n", "k">>,
       v |-> PyStr(<<"h", "t", "t", "p", ":", "/", "/", "w", "w", "w", ".", "w", "3", ".", "o", "r", "g", "/", "1", "9", "9", "9", "/", "x", "l", "i", "n", "k">>)]>>

svg_header(width, height) == render_tag(<<"s", "v", "g">>, FALSE, SVG_attrs(width, height)) \o <<"\n">>

svg_footer == <<"<", "/", "s", "v", "g", ">", "\n">>

\* SVG.render applying the flip to every node, with a group around them that
\* carries no transformation.
RECURSIVE ApplyToEach(_, _, _)
ApplyToEach(h, nodes, t) ==
    IF nodes = <<>> THEN [h |-> h, ret |-> <<>>]
    ELSE LET first == apply_transform(h, Head(nodes), t)
             rest == ApplyToEach(first.h, Tail(nodes), t)
         IN [h |-> rest.h, ret |-> <<first.ret>> \o rest.ret]

SVG_render_flip_each(h, nodes, width, height) ==
    LET flipped == ApplyToEach(h, nodes, Scale(1, -1))
        node == Group_init(flipped.h, flipped.ret)
    IN [h |-> node.h, node |-> node.ret,
        ret |-> svg_header(width, height) \o Shape__svg(node.h, node.ret, <<>>) \o svg_footer]

\* SVG.render: the nodes go into one new Group, which is flipped, and the
\* flipped group is rendered between the header and the footer.
SVG_render(h, nodes, width, height) ==
    LET g == Group_init(h, nodes)
        node == apply_transform(g.h, g.ret, Scale(1, -1))
    IN [h |-> node.h, node |-> node.ret,
        ret |-> svg_header(width, height) \o Shape__svg(node.h, node.ret, <<>>) \o svg_footer]

RECURSIVE Repeat__apply_no_accumulate(_, _, _, _, _)
\* Repeat._apply with the transformation applied to the reference instead of to
\* the accumulated result.
Repeat__apply_no_accumulate(h, shape, tf, n, depth) ==
    IF depth > RecursionLimit
    THEN [h |-> h, ret |-> 0, err |-> "RecursionError", calls |-> 0, low |-> n + 1]
    ELSE IF n = 1
    THEN [h |-> h, ret |-> shape, err |-> "", calls |-> 1, low |-> n]
    ELSE LET r == Repeat__apply_no_accumulate(h, shape, tf, n - 1, depth + 1)
         IN IF r.err # ""
            THEN [r EXCEPT !.calls = @ + 1]
            ELSE LET moved == apply_transform(r.h, shape, tf)
                     g == Shape_add(moved.h, r.ret, moved.ret)
                 IN [h |-> g.h, ret |-> g.ret, err |-> "", calls |-> r.calls + 1,
                     low |-> r.low]

\* Repeat._apply, with the depth of the Python stack: past RecursionLimit the
\* interpreter raises RecursionError.  calls counts the invocations of _apply
\* and low is the smallest count any of them was given.
RECURSIVE Repeat__apply(_, _, _, _, _)
Repeat__apply(h, shape, tf, n, depth) ==
    IF depth > RecursionLimit
    THEN [h |-> h, ret |-> 0, err |-> "RecursionError", calls |-> 0, low |-> n + 1]
    ELSE IF n = 1
    THEN [h |-> h, ret |-> shape, err |-> "", calls |-> 1, low |-> n]
    ELSE LET r == Repeat__apply(h, shape, tf, n - 1, depth + 1)
         IN IF r.err # ""
            THEN [r EXCEPT !.calls = @ + 1]
            ELSE LET result == apply_transform(r.h, r.ret, tf)
                     g == Shape_add(result.h, shape, result.ret)
                 IN [h |-> g.h, ret |-> g.ret, err |-> "", calls |-> r.calls + 1,
                     low |-> r.low]

\* Repeat.apply.  The list [shape] is stored on the Repeat object itself
\* (self.children), not on defs.
Repeat_apply(h, shape, tf, n) ==
    LET ref == get_reference(h, shape)
        defs == Shape_init(ref.h, TagDefs, <<>>)
        self_children == <<shape>>
        r == Repeat__apply(defs.h, ref.ret, tf, n, 1)
    IN IF r.err # ""
       THEN [h |-> r.h, ret |-> 0, err |-> r.err, calls |-> r.calls, low |-> r.low,
             self_children |-> self_children]
       ELSE LET g == Shape_add(r.h, defs.ret, r.ret)
            IN [h |-> g.h, ret |-> g.ret, err |-> "", calls |-> r.calls, low |-> r.low,
                self_children |-> self_children]

\* Shape objects Repeat.apply allocates for a count n.
RepeatObjects(n) == IF n >= 1 THEN 3 + 2 * (n - 1) ELSE 2

\* What the last call was given and what it returned or raised.
RECURSIVE pow(_, _)
\* b ** e for ints, e >= 0.
pow(b, e) == IF e = 0 THEN 1 ELSE b * pow(b, e - 1)

\* Cycle.__init__: s and angle are optional, <<>> standing for None.  360/n
\* is a float; the model keeps its value for the n that divide 360.
Cycle_init(n, anchor, s, angle) ==
    [n |-> n,
     angle |-> IF angle # <<>> THEN angle[1] ELSE 360 \div n,
     angle_float |-> angle = <<>>,
     anchor |-> anchor,
     s |-> s]

\* The rotation of copy i made from (i + 1) * self.angle.
Cycle_rotation_from_one(self, i) ==
    IF self.angle_float THEN RotateFloat((i + 1) * self.angle, self.anchor)
    ELSE Rotate((i + 1) * self.angle, self.anchor)

\* Rotate(angle=i*self.angle, anchor=self.anchor)
Cycle_rotation(self, i) ==
    IF self.angle_float THEN RotateFloat(i * self.angle, self.anchor)
    ELSE Rotate(i * self.angle, self.anchor)

RECURSIVE Cycle_rotated(_, _, _, _)
\* [shape | Rotate(...) for i in range(k)]
Cycle_rotated(h, self, shape, k) ==
    IF k = 0 THEN [h |-> h, ret |-> <<>>]
    ELSE LET p == Cycle_rotated(h, self, shape, k - 1)
             r == apply_transform(p.h, shape, Cycle_rotation(self, k - 1))
         IN [h |-> r.h, ret |-> Append(p.ret, r.ret)]

RECURSIVE Cycle_scaled(_, _, _, _)
\* [shape_ | Scale(sx=self.s**i) for i, shape_ in enumerate(shapes)], the
\* first k of them.
Cycle_scaled(h, self, shapes_, k) ==
    IF k = 0 THEN [h |-> h, ret |-> <<>>]
    ELSE LET p == Cycle_scaled(h, self, shapes_, k - 1)
             f == pow(self.s[1], k - 1)
             r == apply_transform(p.h, shapes_[k], Scale(f, f))
         IN [h |-> r.h, ret |-> Append(p.ret, r.ret)]

\* Cycle.apply
Cycle_apply(h, self, shape) ==
    LET rotated == Cycle_rotated(h, self, shape, self.n)
        scaled == IF self.s # <<>>
                  THEN Cycle_scaled(rotated.h, self, rotated.ret, self.n)
                  ELSE rotated
    IN Group_init(scaled.h, scaled.ret)

NoLast == [op |-> "none", recv |-> 0, tf |-> NoTransform, tf2 |-> NoTransform, n |-> 0, res |-> 0,
           err |-> "", calls |-> 0, low |-> 0]

(***************************************************************************)
(* The program.                                                            *)
(***************************************************************************)
Prims == {Translate(10, 20), Rotate(45, Point(0, 0))}

\* The transformations a caller holds: the primitives and every list made so far.
UserTransforms == Prims \cup {TransformationList(i) : i \in 1..Len(tlists)}

UserAttrs == {<<[k |-> K_r, v |-> PyInt(5)]>>, <<[k |-> K_id, v |-> PyStr(<<"a">>)]>>}

Commit(h) == /\ shapes' = h.shapes
             /\ attrmaps' = h.attrmaps
             /\ tlists' = h.tlists
             /\ shape_seq' = h.shape_seq
             /\ minted' = h.minted

HeapInit == /\ shapes = <<>>
            /\ attrmaps = <<>>
            /\ tlists = <<>>
            /\ shape_seq = 0
            /\ minted = <<>>
            /\ repeat_children = <<>>
            /\ last = NoLast
            /\ ops = 0

RtInit == /\ rt_tag = <<>>
          /\ rt_close = FALSE
          /\ rt_attrs = <<>>
          /\ rt_out = <<>>

\* No SVG object yet.
DocInit == /\ svg_nodes = <<>>
           /\ svg_width = 0
           /\ svg_height = 0
           /\ svg_out = <<>>

\* No Cycle applied yet.
CycleInit == cycle = [n |-> 0, anchor |-> Point(0, 0), s |-> <<>>, angle |-> <<>>]

\* No primitive under conversion.
TextInit == prim = NoTransform /\ prim_text = <<>>

Init == HeapInit /\ RtInit /\ DocInit /\ CycleInit /\ TextInit

\* Shape(tag, **attrs)
NewShape(attrs) ==
    /\ ops < MaxOps
    /\ Len(shapes) + 1 <= MaxShapes
    /\ LET r == Shape_init(Heap, TagCircle, attrs)
       IN /\ Commit(r.h)
          /\ last' = [NoLast EXCEPT !.op = "Shape", !.res = r.ret]
    /\ ops' = ops + 1
    /\ UNCHANGED <<repeat_children, rtvars, docvars, cyclevars, textvars>>

\* shape | transformation, for a primitive or a list
ApplyTransform(s, t) ==
    /\ ops < MaxOps
    /\ Len(shapes) + 1 <= MaxShapes
    /\ shapes[s].transform # NoTransform => Len(tlists) + 1 <= MaxTLists
    /\ LET r == apply_transform(Heap, s, t)
       IN /\ Commit(r.h)
          /\ last' = [NoLast EXCEPT !.op = "apply_transform", !.recv = s, !.tf = t,
                                    !.res = r.ret]
    /\ ops' = ops + 1
    /\ UNCHANGED <<repeat_children, rtvars, docvars, cyclevars, textvars>>

\* a.join(b), a | b
Join(a, b) ==
    /\ ops < MaxOps
    /\ Len(tlists) + 1 <= MaxTLists
    /\ LET r == Transformation_or(Heap, a, b)
       IN /\ Commit(r.h)
          /\ last' = [NoLast EXCEPT !.op = "join", !.tf = a, !.tf2 = b, !.res = r.ret.ref]
    /\ ops' = ops + 1
    /\ UNCHANGED <<repeat_children, rtvars, docvars, cyclevars, textvars>>

\* shape.get_reference()
GetReference(s) ==
    /\ ops < MaxOps
    /\ Len(shapes) + 1 <= MaxShapes
    /\ LET r == get_reference(Heap, s)
       IN /\ Commit(r.h)
          /\ last' = [NoLast EXCEPT !.op = "get_reference", !.recv = s, !.res = r.ret]
    /\ ops' = ops + 1
    /\ UNCHANGED <<repeat_children, rtvars, docvars, cyclevars, textvars>>

\* shape | Repeat(n, t)
RepeatApply(s, n, t) ==
    /\ ops < MaxOps
    /\ Len(shapes) + RepeatObjects(n) <= MaxShapes
    /\ LET r == Repeat_apply(Heap, s, t, n)
       IN /\ Commit(r.h)
          /\ repeat_children' = r.self_children
          /\ last' = [NoLast EXCEPT !.op = "Repeat.apply", !.recv = s, !.tf = t, !.n = n,
                                    !.res = r.ret, !.err = r.err, !.calls = r.calls,
                                    !.low = r.low]
    /\ ops' = ops + 1
    /\ UNCHANGED <<rtvars, docvars, cyclevars, textvars>>

Next == \/ \E a \in UserAttrs : NewShape(a)
        \/ \E s \in 1..Len(shapes), t \in UserTransforms : ApplyTransform(s, t)
        \/ \E a, b \in UserTransforms : Join(a, b)
        \/ \E s \in 1..Len(shapes) : GetReference(s)
        \/ \E s \in 1..Len(shapes), n \in -1..MaxN, t \in UserTransforms : RepeatApply(s, n, t)

Spec == Init /\ [][Next]_vars

(***************************************************************************)
(* Documents: shapes are made, transformed, repeated and combined, put     *)
(* into an SVG object and rendered.                                        *)
(***************************************************************************)
\* Longest list of top-level nodes tried.
MaxNodes == 2
\* Calls that build shapes before the SVG object is made.
MaxBuild == 2

\* The (width, height) pairs tried; 300 by 300 is the default.
Sizes == {<<300, 300>>, <<25, 40>>}

\* The shapes that are no other shape's child: what the calls so far returned
\* and the caller has not put into a group.
Roots == {s \in 1..Len(shapes) :
             \A p \in 1..Len(shapes) : \A i \in 1..Len(shapes[p].children) :
                 shapes[p].children[i] # s}

\* The node lists tried: top-level shapes, each at most once, in any order.
NodeLists == UNION {{l \in [1..m -> Roots] : \A i, j \in 1..m : i # j => l[i] # l[j]} :
                       m \in 0..MaxNodes}

\* shape1 + shape2
Combine(s1, s2) ==
    /\ ops < MaxOps
    /\ Len(shapes) + 1 <= MaxShapes
    /\ LET r == Shape_add(Heap, s1, s2)
       IN /\ Commit(r.h)
          /\ last' = [NoLast EXCEPT !.op = "Shape.add", !.recv = s1, !.res = r.ret]
    /\ ops' = ops + 1
    /\ UNCHANGED <<repeat_children, rtvars, docvars, cyclevars, textvars>>

\* SVG(nodes, width, height)
NewSVG(nodes, size) ==
    /\ svg_width = 0
    /\ svg_nodes' = nodes
    /\ svg_width' = size[1]
    /\ svg_height' = size[2]
    /\ svg_out' = <<>>
    /\ last' = [NoLast EXCEPT !.op = "SVG"]
    /\ UNCHANGED <<shapes, attrmaps, tlists, shape_seq, minted, repeat_children, ops, rtvars, cyclevars, textvars>>

\* svg.render()
Render ==
    /\ svg_width > 0
    /\ svg_out = <<>>
    /\ LET r == SVG_render(Heap, svg_nodes, svg_width, svg_height)
       IN /\ Commit(r.h)
          /\ svg_out' = r.ret
          /\ last' = [NoLast EXCEPT !.op = "SVG.render", !.res = r.node]
    /\ UNCHANGED <<svg_nodes, svg_width, svg_height, repeat_children, ops, rtvars, cyclevars, textvars>>

\* The shapes are built first; the SVG object is made of them and rendered.
Building == ops < MaxBuild /\ svg_width = 0

NextDoc == \/ \E a \in UserAttrs : Building /\ NewShape(a)
           \/ \E s \in 1..Len(shapes), t \in Prims : Building /\ ApplyTransform(s, t)
           \/ \E s \in 1..Len(shapes), n \in 1..MaxN, t \in Prims :
                 Building /\ RepeatApply(s, n, t)
           \/ \E s1, s2 \in Roots : Building /\ Combine(s1, s2)
           \/ \E nodes \in NodeLists, size \in Sizes : NewSVG(nodes, size)
           \/ Render

SpecDoc == Init /\ [][NextDoc]_vars

(***************************************************************************)
(* Cycle: shapes are built, then one Cycle is applied to one of them.      *)
(***************************************************************************)
\* Largest n given to Cycle.
MaxCycleN == 4

\* The Cycle arguments tried; s and angle are optional.
CycleArgs ==
    {[n |-> n, anchor |-> a, s |-> s, angle |-> g] :
        n \in {k \in 1..MaxCycleN : 360 % k = 0},
        a \in {Point(0, 0), Point(10, 20)},
        s \in {<<>>, <<2>>},
        g \in {<<>>, <<30>>}}

\* shape | Cycle(n, anchor, s, angle)
CycleApply(shape, args) ==
    /\ last.op # "Cycle.apply"
    /\ LET self == Cycle_init(args.n, args.anchor, args.s, args.angle)
           r == Cycle_apply(Heap, self, shape)
       IN /\ Commit(r.h)
          /\ last' = [NoLast EXCEPT !.op = "Cycle.apply", !.recv = shape, !.n = args.n,
                                    !.res = r.ret]
    /\ cycle' = args
    /\ UNCHANGED <<repeat_children, ops, rtvars, docvars, textvars>>

BeforeCycle == ops < MaxBuild /\ last.op # "Cycle.apply"

NextCycle == \/ \E a \in UserAttrs : BeforeCycle /\ NewShape(a)
             \/ \E s \in 1..Len(shapes), t \in Prims : BeforeCycle /\ ApplyTransform(s, t)
             \/ \E s \in 1..Len(shapes), args \in CycleArgs : CycleApply(s, args)

SpecCycle == Init /\ [][NextCycle]_vars

(***************************************************************************)
(* render_tag as a function of its arguments: the arguments are drawn from *)
(* bounded sets and one step calls it.                                     *)
(***************************************************************************)
\* Longest attribute value text tried.
MaxValLen == 2

Alphabet == {"a", "\"", "&", "<", ">", "'"}

Texts(n) == UNION {[1..m -> Alphabet] : m \in 0..n}

AttrValues == {PyNone, PyInt(0), PyInt(10)} \cup {PyStr(t) : t \in Texts(MaxValLen)}

AttrKeys == {<<"r">>, <<"s", "_", "w">>}

\* The keyword dicts tried: keys are distinct, in either order.
AttrDicts ==
    {<<>>}
    \cup {<<[k |-> k, v |-> v]>> : k \in AttrKeys, v \in AttrValues}
    \cup {<<[k |-> k1, v |-> v1], [k |-> k2, v |-> v2]>> :
              <<k1, k2>> \in {kk \in AttrKeys \X AttrKeys : kk[1] # kk[2]},
              <<v1, v2>> \in AttrValues \X AttrValues}

heapvars == <<shapes, attrmaps, tlists, shape_seq, minted, repeat_children, last, ops>>

InitTag == /\ HeapInit
           /\ DocInit
           /\ CycleInit
           /\ TextInit
           /\ rt_tag = TagCircle
           /\ rt_close \in BOOLEAN
           /\ rt_attrs \in AttrDicts
           /\ rt_out = <<>>

\* render_tag(tag, close=close, **attrs)
RenderTag ==
    /\ rt_out = <<>>
    /\ rt_out' = render_tag(rt_tag, rt_close, rt_attrs)
    /\ UNCHANGED <<rt_tag, rt_close, rt_attrs, heapvars, docvars, cyclevars, textvars>>

NextTag == RenderTag

SpecTag == InitTag /\ [][NextTag]_vars

(***************************************************************************)
(* The transformation algebra with operands of any type: a caller joins a  *)
(* transformation with a value by the join method or by the | operator.    *)
(***************************************************************************)
\* Compositions a caller requests in one run.
MaxJoins == 2

\* Values that are not transformations: a str and an int.
NonTransformations == {PyStr(<<"a">>), PyInt(5)}

Operands == UserTransforms \cup NonTransformations

\* a.join(b)
JoinCall(a, b) ==
    /\ ops < MaxJoins
    /\ LET r == join(Heap, a, b)
       IN /\ Commit(r.h)
          /\ last' = [NoLast EXCEPT !.op = "join", !.tf = a, !.tf2 = b, !.res = r.ret.ref]
    /\ ops' = ops + 1
    /\ UNCHANGED <<repeat_children, rtvars, docvars, cyclevars, textvars>>

\* a | b
OrCall(a, b) ==
    /\ ops < MaxJoins
    /\ LET r == Transformation_or_operator(Heap, a, b)
       IN /\ Commit(r.h)
          /\ last' = [NoLast EXCEPT !.op = "or", !.tf = a, !.tf2 = b,
                                    !.res = IF r.err = "" THEN r.ret.ref ELSE 0,
                                    !.err = r.err]
    /\ ops' = ops + 1
    /\ UNCHANGED <<repeat_children, rtvars, docvars, cyclevars, textvars>>

NextAlgebra == \/ \E a \in UserTransforms, b \in Operands : JoinCall(a, b)
               \/ \E a \in UserTransforms, b \in Operands : OrCall(a, b)

SpecAlgebra == Init /\ [][NextAlgebra]_vars

(***************************************************************************)
(* as_str as a function of a primitive transformation: the primitive is    *)
(* drawn from bounded sets and one step converts it.                       *)
(***************************************************************************)
\* Largest absolute value of a coordinate, factor or angle tried.
MaxCoord == 2

Coords == (-MaxCoord)..MaxCoord

Angles == Coords \cup {45}

Primitives ==
    {Translate(x, y) : x, y \in Coords}
    \cup {Scale(sx, sy) : sx, sy \in Coords}
    \cup {Rotate(a, Point(x, y)) : a \in Angles, x, y \in Coords}
    \cup {RotateFloat(a, Point(x, y)) : a \in {0, 45}, x, y \in {0, 1}}

InitText == /\ HeapInit
            /\ RtInit
            /\ DocInit
            /\ CycleInit
            /\ prim \in Primitives
            /\ prim_text = <<>>

\* prim.as_str()
AsStr ==
    /\ prim_text = <<>>
    /\ prim_text' = as_str(tlists, prim)
    /\ UNCHANGED <<prim, heapvars, rtvars, docvars, cyclevars>>

NextText == AsStr

SpecText == InitText /\ [][NextText]_vars

(***************************************************************************)
(* Reading a shape tree.                                                   *)
(***************************************************************************)
RECURSIVE Concat(_)
Concat(seqs) == IF seqs = <<>> THEN <<>> ELSE Head(seqs) \o Concat(Tail(seqs))

RECURSIVE Nodes(_, _)
\* The shape objects of the tree under root, in document order.
Nodes(sh, root) ==
    <<root>> \o Concat([i \in 1..Len(sh[root].children) |-> Nodes(sh, sh[root].children[i])])

RECURSIVE Order(_, _)
\* The primitive transformations a transformation stands for, in the order
\* they were applied: a join of a and b applies a, then b.
Order(tl, t) ==
    IF t = NoTransform THEN <<>>
    ELSE IF IsList(t) THEN Concat([i \in 1..Len(tl[t.ref]) |-> Order(tl, tl[t.ref][i])])
    ELSE <<t>>

RECURSIVE UsesUnder(_, _, _, _)
\* The "use" nodes under node in document order, each with its accumulated
\* transformation: its own, then those of the enclosing groups, innermost first.
UsesUnder(sh, tl, node, outer) ==
    LET acc == Order(tl, sh[node].transform) \o outer
    IN IF sh[node].tag = TagUse
       THEN <<[node |-> node, acc |-> acc]>>
       ELSE Concat([i \in 1..Len(sh[node].children) |->
                       UsesUnder(sh, tl, sh[node].children[i], acc)])

RECURSIVE Power(_, _)
\* seq applied k times.
Power(seq, k) == IF k = 0 THEN <<>> ELSE seq \o Power(seq, k - 1)

RepeatReturned == last.op = "Repeat.apply" /\ last.err = ""

\* C1: the tree Repeat(n, T).apply(S) returns has exactly one defs node, whose
\* children are S exactly once, so that its rendering is S's markup inside a
\* defs block.
C1_DefsHoldsShapeOnce ==
    RepeatReturned =>
        LET root == shapes[last.res]
            defs == SelectSeq(root.children, LAMBDA c : shapes[c].tag = TagDefs)
        IN /\ Len(defs) = 1
           /\ shapes[defs[1]].children = <<last.recv>>
           /\ Shape__svg(Heap, defs[1], <<>>) =
                 <<"<", "d", "e", "f", "s", ">", "\n">>
                    \o Shape__svg(Heap, last.recv, <<" ", " ">>)
                    \o <<"<", "/", "d", "e", "f", "s", ">", "\n">>

C3_NonPositiveCountRejected ==
    last.op = "Repeat.apply" =>
        /\ last.n <= 0 => (last.err # "" /\ last.calls = 0)
        /\ last.calls > 0 => last.low >= 1
        /\ last.err # "RecursionError"

\* The "id" entry of the attrs dict of shape o: empty when there is none.
IdEntry(sh, am, o) ==
    LET d == am[sh[o].attrs]
    IN IF HasKey(d, K_id) THEN <<GetItem(d, K_id)>> ELSE <<>>

\* C4: a call of get_reference on a shape neither adds nor changes the "id"
\* entry of the attrs of any other shape, a shape derived from it or the shape
\* it was derived from included.
C4_SeparateAttrMaps ==
    [][(last'.op = "get_reference" /\ ops' = ops + 1) =>
          \A o \in 1..Len(shapes) :
              o # last'.recv =>
                  IdEntry(shapes', attrmaps', o) = IdEntry(shapes, attrmaps, o)]_vars

\* C5: no call changes the tag, the children or the attached transformation
\* of a shape that exists, nor the element sequence of a TransformationList
\* attached to one; apply_transform returns a shape object that is not its
\* receiver.
C5_ReceiverUnchanged ==
    [][/\ Len(shapes') >= Len(shapes)
       /\ \A s \in 1..Len(shapes) :
             /\ shapes'[s].tag = shapes[s].tag
             /\ shapes'[s].children = shapes[s].children
             /\ shapes'[s].transform = shapes[s].transform
             /\ IsList(shapes[s].transform) =>
                   /\ tlists'[shapes[s].transform.ref] = tlists[shapes[s].transform.ref]
                   /\ Order(tlists', shapes[s].transform) = Order(tlists, shapes[s].transform)
       /\ (last'.op = "apply_transform" /\ ops' = ops + 1) =>
             /\ last'.res # last'.recv
             /\ last'.res \notin 1..Len(shapes)]_vars

\* apply_transform has returned for a receiver that carries a
\* TransformationList, and the result carries a longer one.
C5_Witness ==
    /\ last.op = "apply_transform"
    /\ IsList(shapes[last.recv].transform)
    /\ Len(Order(tlists, shapes[last.res].transform))
          > Len(Order(tlists, shapes[last.recv].transform))

\* C6: get_reference on a shape without "id" mints exactly one id and stores
\* it; on a shape with "id" it leaves the stored id and the generator as they
\* are; the "use" shape it returns has the link to that id as its only attribute.
C6_GetReferenceIdempotent ==
    [][(last'.op = "get_reference" /\ ops' = ops + 1) =>
          LET s == last'.recv
              before == IdEntry(shapes, attrmaps, s)
              after == IdEntry(shapes', attrmaps', s)
              use == shapes'[last'.res]
          IN /\ Len(after) = 1
             /\ before = <<>> =>
                   /\ shape_seq' = shape_seq + 1
                   /\ Len(minted') = Len(minted) + 1
                   /\ after[1] = PyStr(minted'[Len(minted')])
             /\ before # <<>> =>
                   /\ after = before
                   /\ shape_seq' = shape_seq
                   /\ minted' = minted
             /\ use.tag = TagUse
             /\ attrmaps'[use.attrs] =
                   <<[k |-> K_href, v |-> PyStr(<<"#">> \o Py_str(after[1]))]>>]_vars

\* get_reference has been called twice on one shape whose id the first call
\* minted: two "use" shapes link the one id minted so far.
C6_Witness ==
    /\ last.op = "get_reference"
    /\ Len(minted) = 1
    /\ IdEntry(shapes, attrmaps, last.recv) = <<PyStr(minted[1])>>
    /\ \E u \in 1..Len(shapes) :
          /\ u # last.res
          /\ shapes[u].tag = TagUse
          /\ attrmaps[shapes[u].attrs] = attrmaps[shapes[last.res].attrs]

\* The attrs dicts that hold a minted id.
HoldsMinted(am, mt, a) ==
    /\ HasKey(am[a], K_id)
    /\ \E i \in 1..Len(mt) : GetItem(am[a], K_id) = PyStr(mt[i])

\* C7: the generator's counter never decreases and grows with every id it
\* yields; no two ids yielded are the same, and no two attrs dicts hold the
\* same minted id.
C7_MintedIdsUnique ==
    [][/\ shape_seq' >= shape_seq
       /\ Len(minted') >= Len(minted)
       /\ SubSeq(minted', 1, Len(minted)) = minted
       /\ Len(minted') > Len(minted) => shape_seq' > shape_seq
       /\ \A i, j \in 1..Len(minted') : i # j => minted'[i] # minted'[j]
       /\ \A a, b \in 1..Len(attrmaps') :
             (a # b /\ HoldsMinted(attrmaps', minted', a) /\ HoldsMinted(attrmaps', minted', b))
                => GetItem(attrmaps'[a], K_id) # GetItem(attrmaps'[b], K_id)]_vars

\* Two shapes with attrs dicts of their own have each been given a minted id.
C7_Witness ==
    /\ Len(minted) = 2
    /\ \E a, b \in 1..Len(attrmaps) :
          /\ a # b
          /\ HoldsMinted(attrmaps, minted, a)
          /\ HoldsMinted(attrmaps, minted, b)

\* C8: a.join(b) is a flat TransformationList: no element is a
\* TransformationList, and the elements are the primitives of a followed by
\* those of b.
C8_JoinIsFlat ==
    last.op = "join" =>
        /\ \A i \in 1..Len(tlists[last.res]) : ~IsList(tlists[last.res][i])
        /\ tlists[last.res] = Order(tlists, last.tf) \o Order(tlists, last.tf2)

\* The text of primitives applied in the given order: last applied first,
\* single spaces between.
RenderedOrder(prims) ==
    str_join(<<" ">>, Reversed([i \in 1..Len(prims) |-> as_str(<<>>, prims[i])]))

\* C9: the transform attribute of a shape is the texts of the primitives
\* applied to it, last applied first, joined by single spaces; a join of a
\* and b applies a's primitives then b's, and applying t to a shape that
\* carries a transformation applies t after it.
C9_RenderedInReverseOrder ==
    /\ \A s \in 1..Len(shapes) :
          shapes[s].transform # NoTransform =>
              GetItem(get_attrs(Heap, s), K_transform) =
                  PyStr(RenderedOrder(Order(tlists, shapes[s].transform)))
    /\ \A i \in 1..Len(tlists) :
          as_str(tlists, TransformationList(i)) =
              RenderedOrder(Order(tlists, TransformationList(i)))
    /\ last.op = "join" =>
          Order(tlists, TransformationList(last.res)) =
              Order(tlists, last.tf) \o Order(tlists, last.tf2)
    /\ last.op = "apply_transform" =>
          Order(tlists, shapes[last.res].transform) =
              Order(tlists, shapes[last.recv].transform) \o Order(tlists, last.tf)

\* A shape that carried two primitives was given a composed list: its
\* transformation is a list with a list nested in it, of four primitives, not
\* all of one kind.
C9_Witness ==
    /\ last.op = "apply_transform"
    /\ IsList(last.tf)
    /\ IsList(shapes[last.recv].transform)
    /\ \E i \in 1..Len(tlists[shapes[last.res].transform.ref]) :
          IsList(tlists[shapes[last.res].transform.ref][i])
    /\ LET o == Order(tlists, shapes[last.res].transform)
       IN Len(o) >= 3 /\ \E i, j \in 1..Len(o) : o[i] # o[j]

\* The dict without its None-valued entries.
WithoutNone(d) == SelectSeq(d, LAMBDA e : e.v # PyNone)

\* C10: render_tag gives for a dict what it gives for the same dict with the
\* None-valued entries removed, also when every entry is None.
C10_NoneOmitted ==
    rt_out # <<>> => rt_out = render_tag(rt_tag, rt_close, WithoutNone(rt_attrs))

(***************************************************************************)
(* Reading a rendered tag back.                                            *)
(***************************************************************************)
StartsWith(s, prefix) == Len(s) >= Len(prefix) /\ SubSeq(s, 1, Len(prefix)) = prefix

Drop(s, n) == SubSeq(s, n + 1, Len(s))

\* The character references html.escape writes, and the characters they stand for.
Entities == <<[ref |-> <<"&", "a", "m", "p", ";">>, char |-> "&"],
              [ref |-> <<"&", "l", "t", ";">>, char |-> "<"],
              [ref |-> <<"&", "g", "t", ";">>, char |-> ">"],
              [ref |-> <<"&", "q", "u", "o", "t", ";">>, char |-> "\""],
              [ref |-> <<"&", "#", "x", "2", "7", ";">>, char |-> "'"]>>

RECURSIVE Unescape(_)
\* The text with every character reference replaced, left to right, by its character.
Unescape(s) ==
    IF s = <<>> THEN <<>>
    ELSE IF \E e \in 1..Len(Entities) : StartsWith(s, Entities[e].ref)
    THEN LET e == CHOOSE e \in 1..Len(Entities) : StartsWith(s, Entities[e].ref)
         IN <<Entities[e].char>> \o Unescape(Drop(s, Len(Entities[e].ref)))
    ELSE <<Head(s)>> \o Unescape(Tail(s))

\* The first position of character c in s; Len(s) + 1 when there is none.
IndexOf(s, c) ==
    IF \E i \in 1..Len(s) : s[i] = c
    THEN CHOOSE i \in 1..Len(s) : s[i] = c /\ \A j \in 1..(i - 1) : s[j] # c
    ELSE Len(s) + 1

RECURSIVE ParseAttrs(_)
\* The name="value" pairs of the text after the tag name, as a markup reader
\* takes them: blanks skipped, the value running to the next double quote and
\* its character references replaced.
ParseAttrs(s) ==
    IF s = <<>> \/ s[1] = ">" \/ s[1] = "/" THEN <<>>
    ELSE IF s[1] = " " THEN ParseAttrs(Tail(s))
    ELSE LET eq == IndexOf(s, "=")
             afterOpen == Drop(s, eq + 1)
             q == IndexOf(afterOpen, "\"")
         IN <<[k |-> SubSeq(s, 1, eq - 1), v |-> Unescape(SubSeq(afterOpen, 1, q - 1))]>>
               \o ParseAttrs(Drop(afterOpen, q))

\* The tag name of a rendered tag: the text between "<" and the first blank
\* or ">".
ParseTagName(s) ==
    LET body == Tail(s)
        stop == IF IndexOf(body, " ") < IndexOf(body, ">")
                THEN IndexOf(body, " ") ELSE IndexOf(body, ">")
    IN SubSeq(body, 1, stop - 1)

\* The attribute value texts as render_tag writes them between the quotes.
RenderedValues(attrs) ==
    LET items == render_tag_items(attrs)
    IN [i \in 1..Len(items) |-> items[i].v]

\* C11: no attribute value is written with a raw double quote or angle
\* bracket in it, and reading the rendered tag back gives the tag name and,
\* for every entry that is not None, its name and the text of its value,
\* unescaped, exactly as given.
C11_EscapingReversible ==
    rt_out # <<>> =>
        LET kept == WithoutNone(rt_attrs)
        IN /\ \A i \in 1..Len(RenderedValues(rt_attrs)) :
                 \A j \in 1..Len(RenderedValues(rt_attrs)[i]) :
                     RenderedValues(rt_attrs)[i][j] \notin {"\"", "<", ">"}
           /\ ParseTagName(rt_out) = rt_tag
           /\ ParseAttrs(Drop(rt_out, 1 + Len(rt_tag))) =
                 [i \in 1..Len(kept) |->
                     [k |-> replace_underscore(kept[i].k), v |-> Py_str(kept[i].v)]]

\* A tag was rendered with two attributes, one of them a text that holds a
\* double quote and an ampersand.
C11_Witness ==
    /\ rt_out # <<>>
    /\ Len(rt_attrs) = 2
    /\ \E i \in 1..2 : rt_attrs[i].v = PyStr(<<"\"", "&">>)

\* The text of the one group SVG.render is to write for the nodes, with the
\* nodes rendered from heap h one level deeper.
FlipGroupText(h, nodes) ==
    IF nodes = <<>>
    THEN <<"<", "g", " ", "t", "r", "a", "n", "s", "f", "o", "r", "m", "=", "\"", "s", "c", "a", "l", "e", "(", "1", " ", "-", "1", ")", "\"", " ", "/", ">", "\n">>
    ELSE <<"<", "g", " ", "t", "r", "a", "n", "s", "f", "o", "r", "m", "=", "\"", "s", "c", "a", "l", "e", "(", "1", " ", "-", "1", ")", "\"", ">", "\n">>
            \o Concat([i \in 1..Len(nodes) |-> Shape__svg(h, nodes[i], <<" ", " ">>)])
            \o <<"<", "/", "g", ">", "\n">>

CycleStep == IF cycle.angle # <<>> THEN cycle.angle[1] ELSE 360 \div cycle.n

\* C13: shape | Cycle(n, ...) is one group of exactly n children, none of
\* them a reference or definitions node: child i (from 0) is the shape (same
\* tag, attributes and children) whose transform is the shape's own followed
\* by a rotation by i * angle around the anchor, angle being 360/n when not
\* given, so consecutive children differ by one angle step; nothing follows
\* the rotation when no scale factor was given.
C13_CycleDirectCopies ==
    (last.op = "Cycle.apply") =>
        LET S == shapes[last.recv]
            g == shapes[last.res]
            own == Order(tlists, S.transform)
            child(i) == shapes[g.children[i]]
            ord(i) == Order(tlists, child(i).transform)
        IN /\ g.tag = TagG
           /\ g.transform = NoTransform
           /\ attrmaps[g.attrs] = <<>>
           /\ Len(g.children) = cycle.n
           /\ \A i \in 1..cycle.n :
                 /\ child(i).tag = S.tag
                 /\ child(i).tag \notin {TagUse, TagDefs}
                 /\ child(i).children = S.children
                 /\ attrmaps[child(i).attrs] = attrmaps[S.attrs]
                 /\ Len(ord(i)) >= Len(own) + 1
                 /\ SubSeq(ord(i), 1, Len(own)) = own
                 /\ ord(i)[Len(own) + 1].kind = "Rotate"
                 /\ ord(i)[Len(own) + 1].angle = (i - 1) * CycleStep
                 /\ ord(i)[Len(own) + 1].anchor = cycle.anchor
                 /\ cycle.s = <<>> => Len(ord(i)) = Len(own) + 1
           /\ \A i \in 1..(cycle.n - 1) :
                 ord(i + 1)[Len(own) + 1].angle - ord(i)[Len(own) + 1].angle = CycleStep

\* Cycle(n=4) was applied to a circle translated by (10, 20): the four
\* children are rotated by 0, 90, 180 and 270 after the translation.
C13_Witness ==
    /\ last.op = "Cycle.apply"
    /\ cycle = [n |-> 4, anchor |-> Point(0, 0), s |-> <<>>, angle |-> <<>>]
    /\ shapes[last.recv].transform = Translate(10, 20)
    /\ Shape__svg(Heap, last.res, <<>>) =
          <<"<", "g", ">", "\n">>
          \o <<" ", " ", "<", "c", "i", "r", "c", "l", "e", " ", "r", "=", "\"", "5", "\"", " ", "t", "r", "a", "n", "s", "f", "o", "r", "m", "=", "\"", "r", "o", "t", "a", "t", "e", "(", "0", ".", "0", ")", " ", "t", "r", "a", "n", "s", "l", "a", "t", "e", "(", "1", "0", " ", "2", "0", ")", "\"", " ", "/", ">", "\n">>
          \o <<" ", " ", "<", "c", "i", "r", "c", "l", "e", " ", "r", "=", "\"", "5", "\"", " ", "t", "r", "a", "n", "s", "f", "o", "r", "m", "=", "\"", "r", "o", "t", "a", "t", "e", "(", "9", "0", ".", "0", ")", " ", "t", "r", "a", "n", "s", "l", "a", "t", "e", "(", "1", "0", " ", "2", "0", ")", "\"", " ", "/", ">", "\n">>
          \o <<" ", " ", "<", "c", "i", "r", "c", "l", "e", " ", "r", "=", "\"", "5", "\"", " ", "t", "r", "a", "n", "s", "f", "o", "r", "m", "=", "\"", "r", "o", "t", "a", "t", "e", "(", "1", "8", "0", ".", "0", ")", " ", "t", "r", "a", "n", "s", "l", "a", "t", "e", "(", "1", "0", " ", "2", "0", ")", "\"", " ", "/", ">", "\n">>
          \o <<" ", " ", "<", "c", "i", "r", "c", "l", "e", " ", "r", "=", "\"", "5", "\"", " ", "t", "r", "a", "n", "s", "f", "o", "r", "m", "=", "\"", "r", "o", "t", "a", "t", "e", "(", "2", "7", "0", ".", "0", ")", " ", "t", "r", "a", "n", "s", "l", "a", "t", "e", "(", "1", "0", " ", "2", "0", ")", "\"", " ", "/", ">", "\n">>
          \o <<"<", "/", "g", ">", "\n">>

RECURSIVE SplitOn(_, _)
\* The pieces of s between the occurrences of c.
SplitOn(s, c) ==
    IF IndexOf(s, c) > Len(s) THEN <<s>>
    ELSE <<SubSeq(s, 1, IndexOf(s, c) - 1)>> \o SplitOn(Drop(s, IndexOf(s, c)), c)

DigitValue(c) == (CHOOSE d \in 1..10 : Digit[d] = c) - 1

\* s is the decimal text of a non-negative int, without needless zeros.
IsNatText(s) ==
    /\ s # <<>>
    /\ \A i \in 1..Len(s) : \E d \in 1..10 : Digit[d] = s[i]
    /\ Len(s) > 1 => s[1] # "0"

RECURSIVE ParseNat(_)
ParseNat(s) == IF s = <<>> THEN 0
               ELSE 10 * ParseNat(SubSeq(s, 1, Len(s) - 1)) + DigitValue(s[Len(s)])

\* s is the decimal text of the int v.
IsIntText(s, v) ==
    IF s # <<>> /\ s[1] = "-"
    THEN IsNatText(Tail(s)) /\ ParseNat(Tail(s)) = -v /\ v < 0
    ELSE IsNatText(s) /\ ParseNat(s) = v

\* s is the text of the float of integral value v.
IsFloatText(s, v) ==
    /\ Len(s) > 2
    /\ SubSeq(s, Len(s) - 1, Len(s)) = <<".", "0">>
    /\ IsIntText(SubSeq(s, 1, Len(s) - 2), v)

\* The name before the parenthesis and the arguments between the
\* parentheses of the text as_str returned.
TextName == SubSeq(prim_text, 1, IndexOf(prim_text, "(") - 1)
TextArgs == SplitOn(SubSeq(prim_text, IndexOf(prim_text, "(") + 1, Len(prim_text) - 1), " ")

\* C14: Translate(x, y) gives 'translate(x y)', Scale(sx, sy) gives
\* 'scale(sx sy)', and Rotate gives 'rotate(angle)' exactly when its anchor
\* equals Point(0, 0), and 'rotate(angle ax ay)' for every other anchor.
C14_CanonicalText ==
    (prim_text # <<>>) =>
        /\ prim_text[Len(prim_text)] = ")"
        /\ CASE prim.kind = "Translate" ->
                   /\ TextName = <<"t", "r", "a", "n", "s", "l", "a", "t", "e">>
                   /\ Len(TextArgs) = 2
                   /\ IsIntText(TextArgs[1], prim.x)
                   /\ IsIntText(TextArgs[2], prim.y)
             [] prim.kind = "Scale" ->
                   /\ TextName = <<"s", "c", "a", "l", "e">>
                   /\ Len(TextArgs) = 2
                   /\ IsIntText(TextArgs[1], prim.sx)
                   /\ IsIntText(TextArgs[2], prim.sy)
             [] prim.kind = "Rotate" ->
                   /\ TextName = <<"r", "o", "t", "a", "t", "e">>
                   /\ (Len(TextArgs) = 1) <=> (prim.anchor = Point(0, 0))
                   /\ (Len(TextArgs) = 3) <=> (prim.anchor # Point(0, 0))
                   /\ IF "float" \in DOMAIN prim
                      THEN IsFloatText(TextArgs[1], prim.angle)
                      ELSE IsIntText(TextArgs[1], prim.angle)
                   /\ Len(TextArgs) = 3 =>
                         /\ IsIntText(TextArgs[2], prim.anchor.x)
                         /\ IsIntText(TextArgs[3], prim.anchor.y)

\* Rotate(45, Point(0, 2)), whose anchor differs from the origin in y only,
\* was converted and gave 'rotate(45 0 2)'.
C14_Witness ==
    /\ prim = Rotate(45, Point(0, 2))
    /\ prim_text = <<"r", "o", "t", "a", "t", "e", "(", "4", "5", " ", "0", " ", "2", ")">>

\* C15: every id the registry minted has the form s-<n>-<suffix>: three
\* pieces between hyphens, the second the counter value, the third a
\* non-empty suffix that is the same for every minted id.
C15_IdsCarrySuffix ==
    /\ \A i \in 1..Len(minted) :
          /\ Len(SplitOn(minted[i], "-")) = 3
          /\ SplitOn(minted[i], "-")[1] = <<"s">>
          /\ IsNatText(SplitOn(minted[i], "-")[2])
          /\ SplitOn(minted[i], "-")[3] # <<>>
    /\ \A i, j \in 1..Len(minted) :
          SplitOn(minted[i], "-")[3] = SplitOn(minted[j], "-")[3]

\* C16: a composition whose right operand is not a transformation fails,
\* by join as by |, and no TransformationList ever holds a value that is not
\* a transformation.
C16_NonTransformationRejected ==
    /\ \A i \in 1..Len(tlists) : \A j \in 1..Len(tlists[i]) :
          isinstance_Transformation(tlists[i][j])
    /\ (last.op \in {"join", "or"} /\ ~isinstance_Transformation(last.tf2))
          => last.err = "TypeError"

\* The shape objects of the rendered document, in document order.
DocNodes == Nodes(shapes, last.res)

\* The positions in the document of the elements whose id attribute is id.
Carriers(id) ==
    {k \in 1..Len(DocNodes) :
        /\ HasKey(attrmaps[shapes[DocNodes[k]].attrs], K_id)
        /\ Py_str(GetItem(attrmaps[shapes[DocNodes[k]].attrs], K_id)) = id}

\* C17: in a rendered document every "use" node links, by "#" and an id, an
\* id that exactly one element of the same document carries.
C17_ReferentialIntegrity ==
    (svg_out # <<>>) =>
        \A k \in 1..Len(DocNodes) :
            shapes[DocNodes[k]].tag = TagUse =>
                LET href == Py_str(GetItem(attrmaps[shapes[DocNodes[k]].attrs], K_href))
                IN /\ href[1] = "#"
                   /\ Cardinality(Carriers(Tail(href))) = 1
====
